---------------------------- MODULE Spec2Model ----------------------------
(***************************************************************************)
(* Model of pull_relay_data.py: the monthly-archive cache, the hour        *)
(* fallback, the consensus parser, the panel intersection and the CSV      *)
(* writer.                                                                 *)
(*                                                                         *)
(* Text is modelled at the character level where the code looks at         *)
(* characters: a token is a sequence of one-character strings, a line is   *)
(* the sequence of its whitespace-separated tokens (line.split()), and a   *)
(* document is the sequence of its lines (text.splitlines()).              *)
(***************************************************************************)
EXTENDS Integers, Sequences, FiniteSets, TLC

\* Longest document (in lines) the parser specification enumerates.
MaxLines == 3

\* Longest date range (in days) of a run, and most --hour-fallback options.
MaxDays == 3
MaxFallbacks == 1
\* the largest number of relay-descriptor/weight groups in a document
MaxGroups == 3

\* Python's None (no token is the one-element sequence <<"None">>: the
\* elements of a token are single characters).
None == <<"None">>

Rep(c, n) == [i \in 1..n |-> c]

(***************************************************************************)
(* base64 -> hex                                                           *)
(***************************************************************************)
B64Chars ==
  << "A","B","C","D","E","F","G","H","I","J","K","L","M","N","O","P",
     "Q","R","S","T","U","V","W","X","Y","Z","a","b","c","d","e","f",
     "g","h","i","j","k","l","m","n","o","p","q","r","s","t","u","v",
     "w","x","y","z","0","1","2","3","4","5","6","7","8","9","+","/" >>

IsB64Char(c) == \E i \in 1..Len(B64Chars) : B64Chars[i] = c

B64Val(c) == (CHOOSE i \in 1..Len(B64Chars) : B64Chars[i] = c) - 1

HexDigits ==
  << "0","1","2","3","4","5","6","7","8","9","A","B","C","D","E","F" >>

\* binascii.a2b_base64 in its default (non-strict) mode, as b64decode calls
\* it: characters outside the alphabet are skipped, a pad that completes a
\* quad ends the input, left-over characters of a quad are an error.
RECURSIVE A2bLoop(_, _, _)
A2bLoop(s, i, st) ==
  IF i > Len(s) \/ st.done THEN st
  ELSE LET c == s[i] IN
    IF c = "="
    THEN IF st.quad_pos >= 2
         THEN IF st.quad_pos + st.pads + 1 >= 4
              THEN [st EXCEPT !.pads = @ + 1, !.done = TRUE]
              ELSE A2bLoop(s, i + 1, [st EXCEPT !.pads = @ + 1])
         ELSE A2bLoop(s, i + 1, st)
    ELSE IF ~IsB64Char(c)
    THEN A2bLoop(s, i + 1, st)
    ELSE LET v == B64Val(c) IN
      CASE st.quad_pos = 0 ->
             A2bLoop(s, i + 1, [st EXCEPT !.pads = 0, !.quad_pos = 1,
                                          !.leftchar = v])
        [] st.quad_pos = 1 ->
             A2bLoop(s, i + 1, [st EXCEPT !.pads = 0, !.quad_pos = 2,
                         !.out = Append(@, st.leftchar * 4 + (v \div 16)),
                         !.leftchar = v % 16])
        [] st.quad_pos = 2 ->
             A2bLoop(s, i + 1, [st EXCEPT !.pads = 0, !.quad_pos = 3,
                         !.out = Append(@, st.leftchar * 16 + (v \div 4)),
                         !.leftchar = v % 4])
        [] OTHER ->
             A2bLoop(s, i + 1, [st EXCEPT !.pads = 0, !.quad_pos = 0,
                         !.out = Append(@, st.leftchar * 64 + v),
                         !.leftchar = 0])

\* base64.b64decode(s): [ok |-> FALSE] stands for the binascii.Error raised.
b64decode(s) ==
  LET st == A2bLoop(s, 1, [quad_pos |-> 0, leftchar |-> 0, pads |-> 0,
                           out |-> <<>>, done |-> FALSE])
  IN IF st.done \/ st.quad_pos = 0
     THEN [ok |-> TRUE, raw |-> st.out]
     ELSE [ok |-> FALSE, raw |-> <<>>]

\* bytes.hex().upper(): two uppercase hex digits per byte.
HexUpper(raw) ==
  [k \in 1..(2 * Len(raw)) |->
     LET b == raw[(k + 1) \div 2] IN
       IF k % 2 = 1 THEN HexDigits[(b \div 16) + 1]
                    ELSE HexDigits[(b % 16) + 1]]

\* b64_to_hex: pad to a multiple of four characters, decode, hex-encode.
\* [ok |-> FALSE] stands for the exception the caller catches.
b64_to_hex(b64_id) ==
  LET padding == Rep("=", (4 - (Len(b64_id) % 4)) % 4)
      dec == b64decode(b64_id \o padding)
  IN IF dec.ok THEN [ok |-> TRUE, hex |-> HexUpper(dec.raw)]
               ELSE [ok |-> FALSE, hex |-> <<>>]

(***************************************************************************)
(* int(...)                                                                *)
(***************************************************************************)
Digits == << "0","1","2","3","4","5","6","7","8","9" >>

IsDigit(c) == \E i \in 1..10 : Digits[i] = c

DigitVal(c) == (CHOOSE i \in 1..10 : Digits[i] = c) - 1

\* The digits part of an integer literal: digits, with single underscores
\* allowed between digits.
DigitsOk(s) ==
  /\ Len(s) >= 1
  /\ \A i \in 1..Len(s) : IsDigit(s[i]) \/ s[i] = "_"
  /\ IsDigit(s[1]) /\ IsDigit(s[Len(s)])
  /\ \A i \in 1..(Len(s) - 1) : ~(s[i] = "_" /\ s[i + 1] = "_")

RECURSIVE DigitsVal(_, _, _)
DigitsVal(s, i, acc) ==
  IF i > Len(s) THEN acc
  ELSE IF s[i] = "_" THEN DigitsVal(s, i + 1, acc)
  ELSE DigitsVal(s, i + 1, acc * 10 + DigitVal(s[i]))

\* int(s) for a token s (no whitespace): optional sign, then digits.
\* [ok |-> FALSE] stands for ValueError.
PyInt(s) ==
  LET signed == Len(s) >= 1 /\ s[1] \in {"+", "-"}
      body == IF signed THEN SubSeq(s, 2, Len(s)) ELSE s
  IN IF DigitsOk(body)
     THEN [ok |-> TRUE,
           val |-> IF signed /\ s[1] = "-" THEN 0 - DigitsVal(body, 1, 0)
                   ELSE DigitsVal(body, 1, 0)]
     ELSE [ok |-> FALSE, val |-> 0]

(***************************************************************************)
(* str helpers                                                             *)
(***************************************************************************)
\* p.startswith(prefix) on character sequences.
StartsWith(p, prefix) ==
  Len(p) >= Len(prefix) /\ SubSeq(p, 1, Len(prefix)) = prefix

\* p.split("=", 1)[1]: what follows the first "=".
AfterEq(p) ==
  LET k == CHOOSE i \in 1..Len(p) :
             p[i] = "=" /\ \A j \in 1..(i - 1) : p[j] # "="
  IN SubSeq(p, k + 1, Len(p))

\* line.startswith("r ") / ("w "), for a line given by its tokens, joined by
\* single spaces with no leading or trailing space: the first token is the
\* marker and a second token follows.
LineStartsWith(line, marker) == Len(line) >= 2 /\ line[1] = <<marker>>

StrBandwidthEq == << "B","a","n","d","w","i","d","t","h","=" >>

(***************************************************************************)
(* parse_consensus                                                         *)
(***************************************************************************)
\* bool(current_fp): None and the empty string are false.
Truthy(fp) == fp # None /\ fp # <<>>

\* dict assignment results[fp] = bw.
DictSet(d, k, v) ==
  [x \in (DOMAIN d) \cup {k} |-> IF x = k THEN v ELSE d[x]]

EmptyDict == [x \in {} |-> 0]

\* The first token of parts[1:] that starts with "Bandwidth=", or 0.
FirstBandwidthTok(parts) ==
  IF \E i \in 2..Len(parts) : StartsWith(parts[i], StrBandwidthEq)
  THEN CHOOSE i \in 2..Len(parts) :
         /\ StartsWith(parts[i], StrBandwidthEq)
         /\ \A j \in 2..(i - 1) : ~StartsWith(parts[j], StrBandwidthEq)
  ELSE 0

\* RLine with the failure paths leaving the pending slot as it was.
RLine_KeepOnFailure(st, line) ==
  IF Len(line) >= 3
  THEN LET h == b64_to_hex(line[3]) IN
         [st EXCEPT !.current_fp = IF h.ok THEN h.hex ELSE @]
  ELSE st

\* RLine that does not overwrite a fingerprint that is still pending.
RLine_KeepFirst(st, line) ==
  IF Truthy(st.current_fp) THEN st
  ELSE IF Len(line) >= 3
  THEN LET h == b64_to_hex(line[3]) IN
         [st EXCEPT !.current_fp = IF h.ok THEN h.hex ELSE None]
  ELSE [st EXCEPT !.current_fp = None]

\* RLine whose assignment sits inside "if len(parts) >= 3": a shorter line
\* leaves the slot as it was.
RLine_ShortLineKeeps(st, line) ==
  IF Len(line) >= 3
  THEN LET h == b64_to_hex(line[3]) IN
         [st EXCEPT !.current_fp = IF h.ok THEN h.hex ELSE None]
  ELSE st

\* The "r " branch: the new value of current_fp.
RLine(st, line) ==
  IF Len(line) >= 3
  THEN LET h == b64_to_hex(line[3]) IN
         [st EXCEPT !.current_fp = IF h.ok THEN h.hex ELSE None]
  ELSE [st EXCEPT !.current_fp = None]

\* What the try block computes from a "w " line: [found |-> FALSE] when no
\* token starts with "Bandwidth=" (bw stays None), [ok |-> FALSE] when int()
\* raises on the first such token.
BandwidthOf(line) ==
  LET k == FirstBandwidthTok(line) IN
    IF k = 0 THEN [found |-> FALSE, ok |-> TRUE, val |-> 0]
    ELSE LET n == PyInt(AfterEq(line[k])) IN
           [found |-> TRUE, ok |-> n.ok, val |-> n.val]

\* WLine testing "if bw:" instead of "if bw is not None:".
WLine_SkipsZero(st, line) ==
  LET bw == BandwidthOf(line) IN
    [results |-> IF bw.found /\ bw.ok /\ bw.val # 0
                 THEN DictSet(st.results, st.current_fp, bw.val)
                 ELSE st.results,
     current_fp |-> None]

\* WLine with the reset inside "if bw is not None" instead of "finally".
WLine_ResetOnStoreOnly(st, line) ==
  LET bw == BandwidthOf(line) IN
    IF bw.found /\ bw.ok
    THEN [results |-> DictSet(st.results, st.current_fp, bw.val),
          current_fp |-> None]
    ELSE st

\* The "w " branch, taken only when current_fp is set: try / except pass /
\* finally current_fp = None.
WLine(st, line) ==
  LET bw == BandwidthOf(line) IN
    [results |-> IF bw.found /\ bw.ok
                 THEN DictSet(st.results, st.current_fp, bw.val)
                 ELSE st.results,
     current_fp |-> None]

\* One iteration of the loop over the lines.
ParseLine(st, line) ==
  IF line = <<>> THEN st
  ELSE IF LineStartsWith(line, "r") THEN RLine(st, line)
  ELSE IF Truthy(st.current_fp) /\ LineStartsWith(line, "w")
       THEN WLine(st, line)
  ELSE st

RECURSIVE ParseFrom(_, _, _)
ParseFrom(doc, i, st) ==
  IF i > Len(doc) THEN st ELSE ParseFrom(doc, i + 1, ParseLine(st, doc[i]))

parse_consensus(consensus_text) ==
  ParseFrom(consensus_text, 1,
            [results |-> EmptyDict, current_fp |-> None]).results


(***************************************************************************)
(* State                                                                   *)
(***************************************************************************)
VARIABLES
  \* one call of parse_consensus, line by line
  consensus_text,   \* the document: a sequence of lines
  lineno,           \* number of lines the loop has processed
  results,          \* dict fingerprint -> bandwidth
  current_fp,       \* the pending fingerprint, or None
  ppc,              \* "idle", "loop" or "returned"
  \* one run of main()
  pc,               \* "idle", "main", "fetch", "parse", "loop_end",
                    \* "main2", "exit"
  args,             \* [start, end, hour, hour_fallback]
  hours,            \* main's hours list
  day,              \* build_panel's loop variable
  hidx,             \* fetch_consensus: index in hours of the next hour
  last_err,         \* fetch_consensus: last_err
  text,             \* what fetch_consensus returned
  per_day,          \* build_panel's list of <<day, mapping>>
  common,           \* build_panel's common set
  cache,            \* .cache/tor-consensuses: month -> file
  remote,           \* the archive server: month -> archive
  out_file,         \* the file at args.out
  exit_code,        \* the process's exit status, -1 while running
  err,              \* the exception that ended the process, if one did
  log,              \* what log() and print() have written
  \* one call of get_json (onionoo_to_csv.py)
  gj_pc,            \* "idle", "try", "returned" or "raised"
  params,           \* get_json's argument
  attempt,          \* the loop variable
  gj_last_err,      \* get_json's last_err
  gj_result,        \* what get_json returned
  gj_raised,        \* the exception that left get_json
  gj_events         \* the requests sent and the sleeps, in order

parseVars == <<consensus_text, lineno, results, current_fp, ppc>>

runVars == <<pc, args, hours, day, hidx, last_err, text, per_day, common,
             cache, remote, out_file, exit_code, err, log>>

gjVars == <<gj_pc, params, attempt, gj_last_err, gj_result, gj_raised,
            gj_events>>

vars == <<parseVars, runVars, gjVars>>

(***************************************************************************)
(* Documents the parser is run on                                          *)
(***************************************************************************)
TokNick == << "n" >>
\* identity tokens: 27 base64 characters are 20 bytes
TokIdA == Rep("A", 27)
TokIdB == Rep("B", 27)
TokIdShort == Rep("A", 4)       \* decodes to 3 bytes
TokIdBad == Rep("A", 5)         \* binascii.Error
TokIdNoData == Rep("!", 4)      \* decodes to b""

LineR(tok) == << <<"r">>, TokNick, tok >>
LineRTrunc == << <<"r">>, TokNick >>
LineWBw(val) == << <<"w">>, StrBandwidthEq \o val >>
LineWMeasuredBw(val) ==
  << <<"w">>, << "M","e","a","s","u","r","e","d","=","1" >>,
     StrBandwidthEq \o val >>
LineWNoBw == << <<"w">>, << "M","e","a","s","u","r","e","d","=","1" >> >>
LineS == << <<"s">>, << "F","a","s","t" >> >>

LinePool ==
  { LineR(TokIdA), LineR(TokIdB), LineR(TokIdShort), LineR(TokIdBad),
    LineR(TokIdNoData), LineRTrunc,
    LineWBw(<<"5">>), LineWBw(<<"0">>), LineWBw(<<"-","5">>),
    LineWBw(<<"x">>), LineWMeasuredBw(<<"7">>), LineWNoBw,
    LineS, <<>> }

Docs == UNION { [1..n -> LinePool] : n \in 0..MaxLines }

(***************************************************************************)
(* parse_consensus, one loop iteration per step                            *)
(***************************************************************************)
NoErr == [type |-> "None", day |-> 0, hour |-> 0]

\* No run of main() is in progress.
RunIdle ==
  /\ pc = "idle"
  /\ args = [start |-> 1, end |-> 0, hour |-> 0, hour_fallback |-> <<>>]
  /\ hours = <<>> /\ day = 0 /\ hidx = 0 /\ last_err = NoErr
  /\ text = <<>> /\ per_day = <<>> /\ common = {}
  /\ cache = <<>> /\ remote = <<>>
  /\ out_file = [exists |-> FALSE, header |-> <<>>, rows |-> <<>>]
  /\ exit_code = -1 /\ err = NoErr /\ log = <<>>

GetJsonIdle ==
  /\ gj_pc = "idle"
  /\ params = [limit |-> 0, offset |-> 0]
  /\ attempt = 0
  /\ gj_last_err = "None" /\ gj_result = "None" /\ gj_raised = "None"
  /\ gj_events = <<>>

InitParse ==
  /\ consensus_text \in Docs
  /\ lineno = 0
  /\ results = EmptyDict
  /\ current_fp = None
  /\ ppc = "loop"
  /\ RunIdle
  /\ GetJsonIdle

NextLine == consensus_text[lineno + 1]

ParseStepTo(st) ==
  /\ results' = st.results
  /\ current_fp' = st.current_fp
  /\ lineno' = lineno + 1
  /\ UNCHANGED <<consensus_text, ppc, runVars, gjVars>>

ParseState == [results |-> results, current_fp |-> current_fp]

\* if not line: continue
ParseEmptyLine ==
  /\ ppc = "loop" /\ lineno < Len(consensus_text)
  /\ NextLine = <<>>
  /\ ParseStepTo(ParseLine(ParseState, NextLine))

\* if line.startswith("r "):
ParseRLine ==
  /\ ppc = "loop" /\ lineno < Len(consensus_text)
  /\ LineStartsWith(NextLine, "r")
  /\ ParseStepTo(ParseLine(ParseState, NextLine))

\* elif current_fp and line.startswith("w "):
ParseWLine ==
  /\ ppc = "loop" /\ lineno < Len(consensus_text)
  /\ ~LineStartsWith(NextLine, "r")
  /\ Truthy(current_fp) /\ LineStartsWith(NextLine, "w")
  /\ ParseStepTo(ParseLine(ParseState, NextLine))

\* else: pass
ParseOtherLine ==
  /\ ppc = "loop" /\ lineno < Len(consensus_text)
  /\ NextLine # <<>>
  /\ ~LineStartsWith(NextLine, "r")
  /\ ~(Truthy(current_fp) /\ LineStartsWith(NextLine, "w"))
  /\ ParseStepTo(ParseLine(ParseState, NextLine))

\* return results
ParseReturn ==
  /\ ppc = "loop" /\ lineno = Len(consensus_text)
  /\ ppc' = "returned"
  /\ UNCHANGED <<consensus_text, lineno, results, current_fp, runVars, gjVars>>

NextParse ==
  \/ ParseEmptyLine
  \/ ParseRLine
  \/ ParseWLine
  \/ ParseOtherLine
  \/ ParseReturn

SpecParse == InitParse /\ [][NextParse]_vars

(***************************************************************************)
(* parse_consensus over documents made of relay-descriptor/weight groups   *)
(***************************************************************************)
GroupToks == { TokIdA, TokIdB, TokIdShort, TokIdNoData }
GroupVals == { <<"5">>, <<"0">> }
\* what a document has between a group's "r" line and its "w" line
Between == { <<>>, <<LineS>>, << <<>> >> }

Group(tok, val, mid) == <<LineR(tok)>> \o mid \o <<LineWBw(val)>>

RECURSIVE JoinGroups(_, _, _)
JoinGroups(c, mid, k) ==
  IF k > Len(c) THEN <<>>
  ELSE Group(c[k][1], c[k][2], mid) \o JoinGroups(c, mid, k + 1)

GroupDocs ==
  UNION { { JoinGroups(c, mid, 1) :
              c \in [1..n -> GroupToks \X GroupVals], mid \in Between } :
          n \in 0..MaxGroups }

InitGroups ==
  /\ consensus_text \in GroupDocs
  /\ lineno = 0
  /\ results = EmptyDict
  /\ current_fp = None
  /\ ppc = "loop"
  /\ RunIdle
  /\ GetJsonIdle

SpecGroups == InitGroups /\ [][NextParse]_vars

(***************************************************************************)
(* Dates, archives and the inputs of a run                                 *)
(***************************************************************************)
\* Days are numbered 1..MaxDays; day.strftime('%Y-%m') puts two consecutive
\* days in each month.
Days == 1..MaxDays
Month(d) == (d + 1) \div 2
Months == { Month(d) : d \in Days }

TokIdC == Rep("C", 27)
TokIdD == Rep("D", 27)

\* One relay of a consensus: its r line, its s line, its w line.
Relay(tok, bw) == << LineR(tok), LineS, LineWBw(bw) >>

DocABC == Relay(TokIdA, <<"1">>) \o Relay(TokIdB, <<"2">>)
            \o Relay(TokIdC, <<"3">>)
DocBCD == Relay(TokIdB, <<"9">>) \o Relay(TokIdC, <<"3">>)
            \o Relay(TokIdD, <<"4">>)
DocBC == Relay(TokIdB, <<"5">>) \o Relay(TokIdC, <<"6">>)
DocA0B == Relay(TokIdA, <<"0">>) \o Relay(TokIdB, <<"7">>)
DocA == Relay(TokIdA, <<"1">>)
DocD == Relay(TokIdD, <<"4">>)
\* A document that names no relay with a usable identity.
DocNoRelay == << LineS, LineRTrunc, LineWBw(<<"8">>) >>

\* A tar member: the date and hour its base name carries (NAME_PAT) and the
\* text it decompresses and decodes to.
Member(d, h, doc) == [date |-> d, hh |-> h, data |-> doc]

\* A monthly archive: ok is whether tarfile.open can read the bytes.
NoBlob == [ok |-> FALSE, members |-> <<>>]

\* Every day at hour 0, the mappings {A,B,C}, {B,C,D}, {B,C} in turn.
ArGood ==
  [ok |-> TRUE,
   members |-> [d \in Days |->
                  Member(d, 0, CASE d % 3 = 1 -> DocABC
                                 [] d % 3 = 2 -> DocBCD
                                 [] OTHER -> DocBC)]]

\* Hour 1 only, and nothing for the last day.
ArFallback ==
  [ok |-> TRUE,
   members |-> [d \in 1..(MaxDays - 1) |-> Member(d, 1, DocA0B)]]

\* Two members per day at hour 0; the first, the one the scan finds, maps
\* relay A, no relay, relay D in turn.
ArDisjoint ==
  [ok |-> TRUE,
   members |-> [k \in 1..(2 * MaxDays) |->
                  IF k % 2 = 1
                  THEN Member((k + 1) \div 2, 0,
                              CASE ((k + 1) \div 2) % 3 = 1 -> DocA
                                [] ((k + 1) \div 2) % 3 = 2 -> DocNoRelay
                                [] OTHER -> DocD)
                  ELSE Member(k \div 2, 0, DocABC)]]

\* Bytes that are no xz-compressed tar.
ArBad == NoBlob

\* What the server may hold for a month, and what a cache file left by an
\* earlier run may hold.
ServerArchives == { ArGood, ArFallback, ArBad }
CachedArchives == { ArDisjoint, ArBad }

NoFile == [exists |-> FALSE, blob |-> NoBlob]
File(blob) == [exists |-> TRUE, blob |-> blob]

HourVals == { 0, 1, 24 }
FallbackLists == UNION { [1..n -> HourVals] : n \in 0..MaxFallbacks }

CsvHeader == << "date", "fingerprint", "relay_bandwidth", "timestamp" >>
NoCsv == [exists |-> FALSE, header |-> <<>>, rows |-> <<>>]
OldCsv ==
  [exists |-> TRUE, header |-> CsvHeader,
   rows |-> << <<0, <<"F">>, 1, [date |-> 0, hh |-> 0, mm |-> 0, ss |-> 0]>> >>]

NoRaise == [type |-> "None", day |-> 0, cause |-> NoErr]

Ev(e, d, h) == [ev |-> e, day |-> d, hour |-> h]

Init ==
  /\ pc = "main"
  /\ args \in { a \in [start : 1..2, end : 0..MaxDays, hour : HourVals,
                       hour_fallback : FallbackLists] :
                  a.end >= a.start - 1 }
  /\ hours = <<>> /\ day = 0 /\ hidx = 0 /\ last_err = NoErr
  /\ text = <<>> /\ per_day = <<>> /\ common = {}
  /\ cache \in [Months -> {NoFile} \cup { File(b) : b \in CachedArchives }]
  /\ remote \in [Months -> ServerArchives]
  /\ out_file \in { NoCsv, OldCsv }
  /\ exit_code = -1 /\ err = NoRaise /\ log = <<>>
  /\ consensus_text = <<>> /\ lineno = 0 /\ results = EmptyDict
  /\ current_fp = None /\ ppc = "idle"
  /\ GetJsonIdle

(***************************************************************************)
(* fetch_from_month_tar                                                    *)
(***************************************************************************)
\* The tar scan: the first member whose base name matches the day and hour.
ExtractFromTar(blob, d, hour) ==
  IF ~blob.ok
  THEN [ok |-> FALSE, text |-> <<>>,
        err |-> [type |-> "ReadError", day |-> d, hour |-> hour]]
  ELSE LET hits == { i \in 1..Len(blob.members) :
                       blob.members[i].date = d /\ blob.members[i].hh = hour }
       IN IF hits = {}
          THEN [ok |-> FALSE, text |-> <<>>,
                err |-> [type |-> "NotFound", day |-> d, hour |-> hour]]
          ELSE LET i == CHOOSE i \in hits : \A j \in hits : i <= j
               IN [ok |-> TRUE, text |-> blob.members[i].data, err |-> NoErr]

\* fetch_from_month_tar that downloads again whenever the server answers.
fetch_from_month_tar_Refreshes(d, hour, file, net) ==
  IF ~net.ok
  THEN IF file.exists
       THEN LET x == ExtractFromTar(file.blob, d, hour) IN
              [file |-> file, ok |-> x.ok, text |-> x.text, err |-> x.err,
               events |-> <<Ev("cached", d, hour)>>
                            \o (IF x.ok THEN <<Ev("found", d, hour)>>
                                ELSE <<>>)]
       ELSE [file |-> file, ok |-> FALSE, text |-> <<>>,
             err |-> [type |-> "URLError", day |-> d, hour |-> hour],
             events |-> <<Ev("download", d, hour)>>]
  ELSE LET x == ExtractFromTar(net.blob, d, hour) IN
         [file |-> File(net.blob), ok |-> x.ok, text |-> x.text, err |-> x.err,
          events |-> <<Ev("download", d, hour), Ev("saved", d, hour)>>
                       \o (IF x.ok THEN <<Ev("found", d, hour)>> ELSE <<>>)]

\* fetch_from_month_tar whose write of the downloaded bytes leaves no file.
fetch_from_month_tar_LosesWrite(d, hour, file, net) ==
  IF file.exists
  THEN LET x == ExtractFromTar(file.blob, d, hour) IN
         [file |-> file, ok |-> x.ok, text |-> x.text, err |-> x.err,
          events |-> <<Ev("cached", d, hour)>>
                       \o (IF x.ok THEN <<Ev("found", d, hour)>> ELSE <<>>)]
  ELSE IF ~net.ok
  THEN [file |-> file, ok |-> FALSE, text |-> <<>>,
        err |-> [type |-> "URLError", day |-> d, hour |-> hour],
        events |-> <<Ev("download", d, hour)>>]
  ELSE LET x == ExtractFromTar(net.blob, d, hour) IN
         [file |-> file, ok |-> x.ok, text |-> x.text, err |-> x.err,
          events |-> <<Ev("download", d, hour), Ev("saved", d, hour)>>
                       \o (IF x.ok THEN <<Ev("found", d, hour)>> ELSE <<>>)]

\* fetch_from_month_tar writing the cache file only once the member has
\* been found in the archive.
fetch_from_month_tar_SavesAfterExtract(d, hour, file, net) ==
  IF file.exists
  THEN LET x == ExtractFromTar(file.blob, d, hour) IN
         [file |-> file, ok |-> x.ok, text |-> x.text, err |-> x.err,
          events |-> <<Ev("cached", d, hour)>>
                       \o (IF x.ok THEN <<Ev("found", d, hour)>> ELSE <<>>)]
  ELSE IF ~net.ok
  THEN [file |-> file, ok |-> FALSE, text |-> <<>>,
        err |-> [type |-> "URLError", day |-> d, hour |-> hour],
        events |-> <<Ev("download", d, hour)>>]
  ELSE LET x == ExtractFromTar(net.blob, d, hour) IN
         [file |-> IF x.ok THEN File(net.blob) ELSE file,
          ok |-> x.ok, text |-> x.text, err |-> x.err,
          events |-> <<Ev("download", d, hour)>>
                       \o (IF x.ok
                           THEN <<Ev("found", d, hour), Ev("saved", d, hour)>>
                           ELSE <<>>)]

\* fetch_from_month_tar(day, hour) with the month's cache file as it finds it
\* and net, what urlopen gives if it is called: the file it leaves, whether it
\* returned (text) or raised (err), and its log lines.
fetch_from_month_tar(d, hour, file, net) ==
  IF file.exists
  THEN LET x == ExtractFromTar(file.blob, d, hour) IN
         [file |-> file, ok |-> x.ok, text |-> x.text, err |-> x.err,
          events |-> <<Ev("cached", d, hour)>>
                       \o (IF x.ok THEN <<Ev("found", d, hour)>> ELSE <<>>)]
  ELSE IF ~net.ok
  THEN [file |-> file, ok |-> FALSE, text |-> <<>>,
        err |-> [type |-> "URLError", day |-> d, hour |-> hour],
        events |-> <<Ev("download", d, hour)>>]
  ELSE LET x == ExtractFromTar(net.blob, d, hour) IN
         [file |-> File(net.blob), ok |-> x.ok, text |-> x.text, err |-> x.err,
          events |-> <<Ev("download", d, hour), Ev("saved", d, hour)>>
                       \o (IF x.ok THEN <<Ev("found", d, hour)>> ELSE <<>>)]

\* What a request for the month's archive can give: an error or the bytes.
NetOutcomes(m) == { [ok |-> FALSE, blob |-> NoBlob],
                    [ok |-> TRUE, blob |-> remote[m]] }

(***************************************************************************)
(* build_panel, write_csv                                                  *)
(***************************************************************************)
\* common = keys of the first day, then &= keys of each later day.
RECURSIVE IntersectFrom(_, _, _)
IntersectFrom(pd, k, acc) ==
  IF k > Len(pd) THEN acc
  ELSE IntersectFrom(pd, k + 1, acc \cap DOMAIN pd[k][2])

\* CommonOf with the loop starting one day late (per_day[2:]).
CommonOf_SkipsSecondDay(pd) ==
  IF pd = <<>> THEN {} ELSE IntersectFrom(pd, 3, DOMAIN pd[1][2])

CommonOf(pd) ==
  IF pd = <<>> THEN {} ELSE IntersectFrom(pd, 2, DOMAIN pd[1][2])

Stamp(d) == [date |-> d, hh |-> 0, mm |-> 0, ss |-> 0]

\* The rows of one day: for fp in common_relays (in the set's iteration
\* order), a row when mapping.get(fp) is not None.
RECURSIVE DayRows(_, _, _, _)
DayRows(d, mapping, order, i) ==
  IF i > Len(order) THEN <<>>
  ELSE (IF order[i] \in DOMAIN mapping
        THEN << <<d, order[i], mapping[order[i]], Stamp(d)>> >>
        ELSE <<>>)
       \o DayRows(d, mapping, order, i + 1)

RECURSIVE CsvRows(_, _, _)
CsvRows(pd, k, order) ==
  IF k > Len(pd) THEN <<>>
  ELSE DayRows(pd[k][1], pd[k][2], order, 1) \o CsvRows(pd, k + 1, order)

\* write_csv that returns before opening the file when there is no common
\* relay: whatever was at the output path stays.
write_csv_ReturnsOnEmpty(pd, order) ==
  IF order = <<>> THEN out_file
  ELSE [exists |-> TRUE, header |-> CsvHeader, rows |-> CsvRows(pd, 1, order)]

\* write_csv testing "if bw:" instead of "if bw is not None:".
write_csv_SkipsZero(pd, order) ==
  [exists |-> TRUE, header |-> CsvHeader,
   rows |-> SelectSeq(CsvRows(pd, 1, order), LAMBDA r : r[3] # 0)]

\* write_csv: the file it leaves.
write_csv(pd, order) ==
  [exists |-> TRUE, header |-> CsvHeader, rows |-> CsvRows(pd, 1, order)]

\* The orders in which a set can be iterated.
Orders(S) ==
  { o \in [1..Cardinality(S) -> S] :
      \A i, j \in 1..Cardinality(S) : i # j => o[i] # o[j] }

(***************************************************************************)
(* main                                                                    *)
(***************************************************************************)
\* HoursList with the primary hour after the fallbacks.
HoursList_PrimaryLast(hour, hour_fallback) == hour_fallback \o <<hour>>

\* hours = [args.hour] + args.hour_fallback
HoursList(hour, hour_fallback) == <<hour>> \o hour_fallback

\* Entering an iteration of build_panel's loop, or leaving the loop.
LoopTo(d) ==
  /\ day' = d
  /\ IF d <= args.end
     THEN pc' = "fetch" /\ hidx' = 1 /\ last_err' = NoErr
     ELSE pc' = "loop_end" /\ UNCHANGED <<hidx, last_err>>

\* An hour out of range: return 2.
MainInvalidHour ==
  /\ pc = "main"
  /\ LET hs == HoursList(args.hour, args.hour_fallback) IN
       /\ \E i \in 1..Len(hs) : hs[i] < 0 \/ hs[i] > 23
       /\ hours' = hs
       /\ log' = log \o <<Ev("start", args.start, args.hour),
                          Ev("invalid_hour", 0,
                             hs[CHOOSE i \in 1..Len(hs) :
                                  /\ hs[i] < 0 \/ hs[i] > 23
                                  /\ \A j \in 1..(i - 1) :
                                       ~(hs[j] < 0 \/ hs[j] > 23)])>>
  /\ pc' = "exit" /\ exit_code' = 2
  /\ UNCHANGED <<args, day, hidx, last_err, text, per_day, common, cache,
                 remote, out_file, err, parseVars, gjVars>>

\* The hours are valid: build_panel is called.
MainBuildPanel ==
  /\ pc = "main"
  /\ LET hs == HoursList(args.hour, args.hour_fallback) IN
       /\ \A i \in 1..Len(hs) : ~(hs[i] < 0 \/ hs[i] > 23)
       /\ hours' = hs
  /\ log' = Append(log, Ev("start", args.start, args.hour))
  /\ LoopTo(args.start)
  /\ UNCHANGED <<args, text, per_day, common, cache, remote, out_file,
                 exit_code, err, parseVars, gjVars>>

\* fetch_consensus: fetch_from_month_tar returns for hours[hidx].
FetchHourReturns ==
  /\ pc = "fetch" /\ hidx <= Len(hours)
  /\ \E net \in NetOutcomes(Month(day)) :
       LET r == fetch_from_month_tar(day, hours[hidx], cache[Month(day)], net)
       IN /\ r.ok
          /\ text' = r.text
          /\ cache' = [cache EXCEPT ![Month(day)] = r.file]
          /\ log' = log \o <<Ev("try", day, hours[hidx])>> \o r.events
  /\ pc' = "parse"
  /\ UNCHANGED <<args, hours, day, hidx, last_err, per_day, common, remote,
                 out_file, exit_code, err, parseVars, gjVars>>

\* fetch_consensus: fetch_from_month_tar raises for hours[hidx]; the
\* exception is kept in last_err and the loop goes on.
FetchHourRaises ==
  /\ pc = "fetch" /\ hidx <= Len(hours)
  /\ \E net \in NetOutcomes(Month(day)) :
       LET r == fetch_from_month_tar(day, hours[hidx], cache[Month(day)], net)
       IN /\ ~r.ok
          /\ last_err' = r.err
          /\ cache' = [cache EXCEPT ![Month(day)] = r.file]
          /\ log' = log \o <<Ev("try", day, hours[hidx])>> \o r.events
                        \o <<Ev("fail", day, hours[hidx])>>
  /\ hidx' = hidx + 1
  /\ UNCHANGED <<pc, args, hours, day, text, per_day, common, remote,
                 out_file, exit_code, err, parseVars, gjVars>>

\* FetchConsensusRaise swallowing the failure: the day is skipped.
FetchConsensusRaise_SkipsDay ==
  /\ pc = "fetch" /\ hidx > Len(hours)
  /\ LoopTo(day + 1)
  /\ UNCHANGED <<args, hours, text, per_day, common, cache, remote,
                 out_file, exit_code, err, log, parseVars, gjVars>>

\* fetch_consensus: every hour failed; the RuntimeError is caught nowhere.
FetchConsensusRaise ==
  /\ pc = "fetch" /\ hidx > Len(hours)
  /\ err' = [type |-> "RuntimeError", day |-> day, cause |-> last_err]
  /\ pc' = "exit" /\ exit_code' = 1
  /\ UNCHANGED <<args, hours, day, hidx, last_err, text, per_day, common,
                 cache, remote, out_file, log, parseVars, gjVars>>

\* build_panel: parse the day's text, append, next day.
ParseDay ==
  /\ pc = "parse"
  /\ LET mapping == parse_consensus(text) IN
       /\ per_day' = Append(per_day, <<day, mapping>>)
       /\ log' = Append(log, Ev("parsed", day, Cardinality(DOMAIN mapping)))
  /\ LoopTo(day + 1)
  /\ UNCHANGED <<args, hours, text, common, cache, remote, out_file,
                 exit_code, err, parseVars, gjVars>>

\* build_panel: after the loop, the intersection.
BuildPanelReturn ==
  /\ pc = "loop_end"
  /\ common' = CommonOf(per_day)
  /\ pc' = "main2"
  /\ UNCHANGED <<args, hours, day, hidx, last_err, text, per_day, cache,
                 remote, out_file, exit_code, err, log, parseVars, gjVars>>

\* if not per_day: return 1
MainNoDays ==
  /\ pc = "main2" /\ per_day = <<>>
  /\ log' = Append(log, Ev("no_days", 0, 0))
  /\ pc' = "exit" /\ exit_code' = 1
  /\ UNCHANGED <<args, hours, day, hidx, last_err, text, per_day, common,
                 cache, remote, out_file, err, parseVars, gjVars>>

\* The warning when common is empty, write_csv, return 0.
MainWrite ==
  /\ pc = "main2" /\ per_day # <<>>
  /\ log' = log \o (IF common = {} THEN <<Ev("warning", 0, 0)>> ELSE <<>>)
                \o <<Ev("writing", Len(per_day), Cardinality(common)),
                     Ev("wrote", Len(per_day), Cardinality(common))>>
  /\ \E order \in Orders(common) : out_file' = write_csv(per_day, order)
  /\ pc' = "exit" /\ exit_code' = 0
  /\ UNCHANGED <<args, hours, day, hidx, last_err, text, per_day, common,
                 cache, remote, err, parseVars, gjVars>>

Next ==
  \/ MainInvalidHour
  \/ MainBuildPanel
  \/ FetchHourReturns
  \/ FetchHourRaises
  \/ FetchConsensusRaise
  \/ ParseDay
  \/ BuildPanelReturn
  \/ MainNoDays
  \/ MainWrite

Spec == Init /\ [][Next]_vars

(***************************************************************************)
(* onionoo_to_csv.py: get_json                                             *)
(***************************************************************************)
PAGE_SIZE == 5000
RETRIES == 4
\* BACKOFF = 1.5 as the fraction BackoffNum / BackoffDen
BackoffNum == 3
BackoffDen == 2

RECURSIVE Pow(_, _)
Pow(b, n) == IF n = 0 THEN 1 ELSE b * Pow(b, n - 1)

\* BackoffDelay with BACKOFF * attempt for BACKOFF ** attempt.
BackoffDelay_Linear(a) == <<BackoffNum * a, BackoffDen>>

\* BACKOFF ** attempt, as <<numerator, denominator>>
BackoffDelay(a) == <<Pow(BackoffNum, a), Pow(BackoffDen, a)>>

\* What r.json() can return.
Payloads == { "page_a", "page_b" }
\* What requests.get, r.raise_for_status and r.json can raise.
RequestErrors == { "ConnectionError", "Timeout", "HTTPError",
                   "JSONDecodeError" }

Request(a, out) ==
  [ev |-> "request", attempt |-> a, out |-> out, num |-> 0, den |-> 1]
Sleep(a, dur) ==
  [ev |-> "sleep", attempt |-> a, out |-> "", num |-> dur[1], den |-> dur[2]]

InitRetry ==
  /\ gj_pc = "try"
  /\ params \in { [limit |-> PAGE_SIZE, offset |-> 0],
                  [limit |-> PAGE_SIZE, offset |-> PAGE_SIZE] }
  /\ attempt = 1
  /\ gj_last_err = "None" /\ gj_result = "None" /\ gj_raised = "None"
  /\ gj_events = <<>>
  /\ consensus_text = <<>> /\ lineno = 0 /\ results = EmptyDict
  /\ current_fp = None /\ ppc = "idle"
  /\ RunIdle

\* The try block runs to its end: return r.json()
GetJsonReturns ==
  /\ gj_pc = "try"
  /\ \E page \in Payloads :
       /\ gj_events' = Append(gj_events, Request(attempt, page))
       /\ gj_result' = page
  /\ gj_pc' = "returned"
  /\ UNCHANGED <<params, attempt, gj_last_err, gj_raised, parseVars, runVars>>

\* except Exception with attempt < RETRIES: sleep, next iteration
GetJsonRetries ==
  /\ gj_pc = "try" /\ attempt < RETRIES
  /\ \E e \in RequestErrors :
       /\ gj_events' = gj_events \o <<Request(attempt, e),
                                       Sleep(attempt, BackoffDelay(attempt))>>
       /\ gj_last_err' = e
  /\ attempt' = attempt + 1
  /\ UNCHANGED <<gj_pc, params, gj_result, gj_raised, parseVars, runVars>>

\* except Exception on the last iteration: raise
GetJsonRaises ==
  /\ gj_pc = "try" /\ ~(attempt < RETRIES)
  /\ \E e \in RequestErrors :
       /\ gj_events' = Append(gj_events, Request(attempt, e))
       /\ gj_last_err' = e
       /\ gj_raised' = e
  /\ gj_pc' = "raised"
  /\ UNCHANGED <<params, attempt, gj_result, parseVars, runVars>>

NextRetry ==
  \/ GetJsonReturns
  \/ GetJsonRetries
  \/ GetJsonRaises

SpecRetry == InitRetry /\ [][NextRetry]_vars

(***************************************************************************)
(* The parser's claims                                                     *)
(***************************************************************************)
IsRLineAt(i) == LineStartsWith(consensus_text[i], "r")
IsWLineAt(i) == LineStartsWith(consensus_text[i], "w")

\* The fingerprint the relay-descriptor line i names, None when it names none.
LineFp(i) ==
  IF IsRLineAt(i) /\ Len(consensus_text[i]) >= 3
  THEN LET h == b64_to_hex(consensus_text[i][3]) IN
         IF h.ok THEN h.hex ELSE None
  ELSE None

\* The first relay-descriptor or weight line after line i, 0 when none.
NextRW(i) ==
  LET later == { j \in (i + 1)..Len(consensus_text) :
                   IsRLineAt(j) \/ IsWLineAt(j) }
  IN IF later = {} THEN 0
     ELSE CHOOSE j \in later : \A k \in later : j <= k

\* Line i is a relay-descriptor line whose next r/w line is a weight line.
Paired(i) == IsRLineAt(i) /\ NextRW(i) # 0 /\ IsWLineAt(NextRW(i))

\* Line i is a relay-descriptor line and the next line that is not blank
\* (blank lines are skipped before any line is looked at) is a weight line.
ImmediatelyFollowed(i) ==
  /\ IsRLineAt(i)
  /\ \E j \in (i + 1)..Len(consensus_text) :
       /\ IsWLineAt(j)
       /\ \A k \in (i + 1)..(j - 1) : consensus_text[k] = <<>>

LineNos == 1..Len(consensus_text)

\* C3 as stated: a relay none of whose r lines is immediately followed by a
\* w line has no entry in the mapping parse_consensus returns.
C3_NotImmediatelyFollowedNoEntry ==
  ppc = "returned" =>
    \A i \in LineNos :
      ( /\ IsRLineAt(i) /\ Truthy(LineFp(i))
        /\ \A k \in LineNos :
             IsRLineAt(k) /\ LineFp(k) = LineFp(i) => ~ImmediatelyFollowed(k) )
      => LineFp(i) \notin DOMAIN results

\* C3 (amended): a relay none of whose r lines is followed by a w line before
\* the next r line or the end of the document has no entry in the mapping
\* parse_consensus returns; lines of other kinds between an r line and its
\* w line do not break the pairing.
C3_UnpairedNoEntry ==
  ppc = "returned" =>
    \A i \in LineNos :
      ( /\ IsRLineAt(i) /\ Truthy(LineFp(i))
        /\ \A k \in LineNos :
             IsRLineAt(k) /\ LineFp(k) = LineFp(i) => ~Paired(k) )
      => LineFp(i) \notin DOMAIN results

\* An unpaired relay followed by more lines, beside a relay that got an entry.
C3_Witness ==
  /\ ppc = "returned"
  /\ results # EmptyDict
  /\ \E i \in LineNos :
       /\ IsRLineAt(i) /\ Truthy(LineFp(i)) /\ ~Paired(i)
       /\ i < Len(consensus_text)
       /\ LineFp(i) \notin DOMAIN results

\* C4: when the next r/w line after an r line is another r line, the first
\* relay gets no entry from any later w line (it has one only if another of
\* its r lines is paired), and the w line the second is paired with records
\* its Bandwidth under the second's fingerprint.
C4_SecondOverwritesFirst ==
  ppc = "returned" =>
    \A i \in LineNos :
      (IsRLineAt(i) /\ NextRW(i) # 0 /\ IsRLineAt(NextRW(i))) =>
        LET j == NextRW(i) IN
          /\ ( /\ Truthy(LineFp(i))
               /\ \A k \in LineNos \ {i} :
                    IsRLineAt(k) /\ LineFp(k) = LineFp(i) => ~Paired(k) )
             => LineFp(i) \notin DOMAIN results
          /\ ( /\ Truthy(LineFp(j)) /\ Paired(j)
               /\ BandwidthOf(consensus_text[NextRW(j)]).found
               /\ BandwidthOf(consensus_text[NextRW(j)]).ok
               /\ \A k \in (j + 1)..Len(consensus_text) :
                    LineFp(k) # LineFp(j) )
             => /\ LineFp(j) \in DOMAIN results
                /\ results[LineFp(j)] =
                     BandwidthOf(consensus_text[NextRW(j)]).val

\* Two r lines of different relays, then a w line: only the second is mapped.
C4_Witness ==
  /\ ppc = "returned"
  /\ \E i \in LineNos :
       /\ IsRLineAt(i) /\ Truthy(LineFp(i))
       /\ NextRW(i) # 0 /\ IsRLineAt(NextRW(i))
       /\ Truthy(LineFp(NextRW(i))) /\ LineFp(NextRW(i)) # LineFp(i)
       /\ Paired(NextRW(i))
       /\ DOMAIN results = {LineFp(NextRW(i))}

\* C5: after a w line has been processed no fingerprint is pending, and a
\* w line processed while none is pending leaves the mapping as it was.
C5_WeightLineClearsPending ==
  /\ [](ppc = "loop" /\ lineno >= 1 /\ IsWLineAt(lineno)
          => ~Truthy(current_fp))
  /\ [][ ( /\ ppc = "loop" /\ lineno < Len(consensus_text)
           /\ IsWLineAt(lineno + 1) /\ lineno' = lineno + 1 )
         => /\ Truthy(current_fp) => current_fp' = None
            /\ ~Truthy(current_fp) => results' = results ]_vars

\* r, then a w line whose Bandwidth is absent or not an integer, then a w
\* line with a Bandwidth: nothing is recorded and nothing is pending.
C5_Witness ==
  /\ ppc = "loop" /\ lineno = 3
  /\ IsRLineAt(1) /\ Truthy(LineFp(1))
  /\ IsWLineAt(2) /\ IsWLineAt(3)
  /\ LET b2 == BandwidthOf(consensus_text[2])
         b3 == BandwidthOf(consensus_text[3])
     IN /\ ~(b2.found /\ b2.ok)
        /\ b3.found /\ b3.ok
  /\ results = EmptyDict
  /\ current_fp = None

HexChars == { HexDigits[i] : i \in 1..Len(HexDigits) }

\* C6: every key of the mapping has exactly 40 uppercase hex characters.
C6_KeysAre40Hex ==
  \A fp \in DOMAIN results :
    Len(fp) = 40 /\ \A i \in 1..Len(fp) : fp[i] \in HexChars

\* C7: every recorded bandwidth is a non-negative integer.
C7_BandwidthNonNegative ==
  \A fp \in DOMAIN results : results[fp] \in Nat

(***************************************************************************)
(* The run's claims                                                        *)
(***************************************************************************)
Rows == out_file.rows
NDays == args.end - args.start + 1

C2_CommonIsIntersection ==
  (pc = "main2" /\ per_day # <<>>) =>
    /\ Len(per_day) = NDays
    /\ \A k \in 1..Len(per_day) : per_day[k][1] = args.start + k - 1
    /\ common =
         { fp \in UNION { DOMAIN per_day[k][2] : k \in 1..Len(per_day) } :
             \A k \in 1..Len(per_day) : fp \in DOMAIN per_day[k][2] }

\* Three days whose key sets all differ, with a common set that is neither
\* empty nor any day's key set but the last.
C2_Witness ==
  /\ pc = "main2" /\ Len(per_day) = 3
  /\ common # {}
  /\ common # DOMAIN per_day[1][2] /\ common # DOMAIN per_day[2][2]
  /\ DOMAIN per_day[1][2] # DOMAIN per_day[2][2]

\* The log lines of kind e about day d, in order.
EventsOf(e, d) == SelectSeq(log, LAMBDA x : x.ev = e /\ x.day = d)

\* The position in the log of the last line of kind e about day d, or 0.
LastPos(e, d) ==
  LET at == { i \in 1..Len(log) : log[i].ev = e /\ log[i].day = d }
  IN IF at = {} THEN 0 ELSE CHOOSE i \in at : \A j \in at : j <= i

\* C8: for every day the hours tried are, in order, a prefix of primary hour
\* then fallbacks; every try before the last one failed; a success is the
\* last try of its day, there is one per fetched day, and the text returned
\* is the document of that hour.
C8_HoursInOrderFirstSuccess ==
  \A d \in Days :
    LET tries == EventsOf("try", d)
        founds == EventsOf("found", d)
        fails == EventsOf("fail", d)
        want == <<args.hour>> \o args.hour_fallback
    IN /\ Len(tries) <= Len(want)
       /\ \A i \in 1..Len(tries) : tries[i].hour = want[i]
       /\ \A i \in 1..Len(fails) : fails[i].hour = want[i]
       /\ Len(founds) <= 1
       /\ Len(founds) = 1 =>
            /\ Len(fails) = Len(tries) - 1
            /\ founds[1].hour = want[Len(tries)]
            /\ LastPos("found", d) > LastPos("try", d)
            /\ LastPos("try", d) > LastPos("fail", d)
       /\ (pc = "parse" /\ day = d) =>
            /\ Len(founds) = 1
            /\ LET x == ExtractFromTar(cache[Month(d)].blob, d,
                                       want[Len(tries)])
               IN x.ok /\ text = x.text
       /\ \A k \in 1..Len(per_day) : per_day[k][1] = d =>
            /\ Len(founds) = 1
            /\ LET x == ExtractFromTar(cache[Month(d)].blob, d,
                                       founds[1].hour)
               IN x.ok /\ per_day[k][2] = parse_consensus(x.text)

\* The primary hour failed and a different fallback hour gave the document.
C8_Witness ==
  /\ pc = "parse" /\ hidx = 2 /\ hours[1] # hours[2]
  /\ Len(EventsOf("fail", day)) = 1

\* C9: when every hour of a day has failed, the run ends there with a
\* RuntimeError wrapping the last hour's error and a non-zero exit status,
\* having touched no later day and not the output file; the output file
\* changes only in the step that ends a run with status 0, and nothing
\* happens after the exit.
C9_AllHoursFailAborts ==
  /\ [][ (pc = "fetch" /\ hidx > Len(hours)) =>
           /\ pc' = "exit" /\ exit_code' # 0
           /\ err'.type = "RuntimeError" /\ err'.cause = last_err
           /\ last_err.type # "None" /\ last_err.day = day
           /\ last_err.hour = hours[Len(hours)]
           /\ out_file' = out_file /\ log' = log /\ per_day' = per_day ]_vars
  /\ [][ out_file' # out_file =>
           pc' = "exit" /\ exit_code' = 0 /\ err' = NoRaise ]_vars
  /\ [][ pc # "exit" ]_vars
  /\ []( (pc = "exit" /\ err.type = "RuntimeError") =>
           /\ exit_code # 0
           /\ \A i \in 1..Len(log) :
                log[i].ev \notin {"writing", "wrote"}
                /\ (log[i].ev \in {"try", "parsed"} => log[i].day <= err.day)
           /\ Len(per_day) = err.day - args.start )

\* A later day fails on both of two hours after an earlier day was parsed,
\* with an output file already there.
C9_Witness ==
  /\ pc = "exit" /\ err.type = "RuntimeError"
  /\ Len(per_day) >= 1 /\ Len(hours) = 2
  /\ out_file = OldCsv

Requested ==
  \E i \in (Len(log) + 1)..Len(log') : log'[i].ev = "download"

\* C10: a call of fetch_from_month_tar for a month whose cache file exists
\* makes no request, leaves the file as it is and extracts from the file's
\* bytes; a call makes a request exactly when the month has no cache file.
C10_CacheHitNoRequest ==
  [][ (pc = "fetch" /\ hidx <= Len(hours)) =>
        LET m == Month(day)
            x == ExtractFromTar(cache[m].blob, day, hours[hidx])
        IN /\ Requested <=> ~cache[m].exists
           /\ cache[m].exists =>
                /\ cache' = cache
                /\ IF x.ok THEN pc' = "parse" /\ text' = x.text
                   ELSE pc' = "fetch" /\ last_err' = x.err ]_vars

\* A document taken from a cache file that differs from the server's
\* archive, where the server's archive holds another document for the hour.
C10_Witness ==
  /\ pc = "parse"
  /\ \A i \in 1..Len(log) : log[i].ev # "download"
  /\ cache[Month(day)].blob # remote[Month(day)]
  /\ LET y == ExtractFromTar(remote[Month(day)], day, hours[hidx])
     IN y.ok /\ y.text # text

\* The positions in the log of the lines of kind e about a day of month m.
MonthPos(e, m) ==
  { i \in 1..Len(log) : log[i].ev = e /\ Month(log[i].day) = m }

\* C11 as stated: in a run, a month's cache file is read at most once and
\* written at most once.
C11_CacheTouchedOnce ==
  \A m \in Months :
    /\ Cardinality(MonthPos("cached", m)) <= 1
    /\ Cardinality(MonthPos("saved", m)) <= 1

\* C11 (amended): in a run, a month's cache file is written at most once,
\* by a call that found no file, and is there from then on; it is read by
\* every call of fetch_from_month_tar for the month that finds it, one call
\* per day and hour tried, and never written after it has been read.
C11_CacheWrittenOnceReadPerCall ==
  \A m \in Months :
    /\ Cardinality(MonthPos("saved", m)) <= 1
    /\ MonthPos("saved", m) # {} => cache[m].exists
    /\ \A i \in MonthPos("saved", m) : \A j \in MonthPos("cached", m) : i < j
    /\ \A i \in MonthPos("saved", m) : log[i - 1].ev = "download"
    /\ Cardinality(MonthPos("cached", m))
         + Cardinality(MonthPos("download", m))
         = Cardinality(MonthPos("try", m))

\* A month's file written once and then read by two later calls.
C11_Witness ==
  \E m \in Months :
    /\ Cardinality(MonthPos("saved", m)) = 1
    /\ Cardinality(MonthPos("cached", m)) >= 2

\* Line i is a relay-descriptor line that names no fingerprint: it has fewer
\* than three tokens or its identity token does not decode.
NoIdentityAt(i) == IsRLineAt(i) /\ LineFp(i) = None

\* C12: a relay-descriptor line with fewer than three tokens, or whose
\* identity token cannot be decoded, sets the pending slot to None, leaves
\* the recorded entries as they are and lets the loop go on to the next
\* line; the weight line that follows such a line records nothing.
C12_UndecodableLineEmptiesSlot ==
  /\ [][ ( /\ ppc = "loop" /\ lineno < Len(consensus_text)
           /\ NoIdentityAt(lineno + 1) /\ lineno' = lineno + 1 )
         => /\ current_fp' = None
            /\ results' = results
            /\ ppc' = "loop" ]_vars
  /\ [][ ( /\ ppc = "loop" /\ lineno < Len(consensus_text)
           /\ IsWLineAt(lineno + 1) /\ lineno' = lineno + 1
           /\ \E i \in 1..lineno :
                NoIdentityAt(i) /\ NextRW(i) = lineno + 1 )
         => results' = results ]_vars
  /\ [](ppc = "returned" => lineno = Len(consensus_text))

\* A fingerprint is pending, a relay-descriptor line without an identity
\* token follows, then a weight line with a Bandwidth: nothing is recorded.
C12_Witness ==
  /\ ppc = "loop" /\ lineno = 3
  /\ IsRLineAt(1) /\ Truthy(LineFp(1))
  /\ NoIdentityAt(2) /\ Len(consensus_text[2]) < 3
  /\ IsWLineAt(3)
  /\ LET b3 == BandwidthOf(consensus_text[3]) IN b3.found /\ b3.ok
  /\ results = EmptyDict
  /\ current_fp = None

\* C14: when every day of a non-empty range was fetched and parsed and no
\* fingerprint is in every day's mapping, the run prints the warning, calls
\* write_csv, which leaves a file holding the header row only, and returns 0.
C14_EmptyCommonStillSucceeds ==
  ( /\ pc = "exit" /\ err = NoRaise
    /\ NDays >= 1 /\ Len(per_day) = NDays
    /\ common = {} )
  => /\ exit_code = 0
     /\ \E i \in 1..Len(log) :
          /\ log[i].ev = "warning"
          /\ \E j \in (i + 1)..Len(log) : log[j].ev = "writing"
     /\ out_file.exists
     /\ out_file.header = CsvHeader
     /\ Rows = <<>>

\* Two or more days, each with relays, none of them in every day.
C14_Witness ==
  /\ pc = "exit" /\ exit_code = 0
  /\ NDays >= 2 /\ Len(per_day) = NDays
  /\ \A k \in 1..Len(per_day) : DOMAIN per_day[k][2] # {}
  /\ common = {}
  /\ Rows = <<>>

\* The kinds of the log lines a step adds.
NewEvents == [ i \in 1..(Len(log') - Len(log)) |-> log'[Len(log) + i].ev ]

\* C16: a call of fetch_from_month_tar that finds no cache file makes one
\* request. When the request fails the call raises the request's error and
\* leaves no file, and the next call for the month makes a request again.
\* When it succeeds the bytes are in the cache before the archive is opened,
\* and they stay there, and later calls read them, even when the call then
\* fails to extract the document.
C16_FailedDownloadNotCachedGoodOneKept ==
  /\ [][ (pc = "fetch" /\ hidx <= Len(hours) /\ ~cache[Month(day)].exists) =>
           LET m == Month(day)
               x == ExtractFromTar(remote[m], day, hours[hidx])
           IN \/ /\ NewEvents = <<"try", "download", "fail">>
                 /\ cache' = cache
                 /\ last_err'.type = "URLError"
                 /\ pc' = "fetch" /\ hidx' = hidx + 1
              \/ /\ NewEvents = <<"try", "download", "saved", "found">>
                 /\ cache' = [cache EXCEPT ![m] = File(remote[m])]
                 /\ x.ok /\ text' = x.text /\ pc' = "parse"
              \/ /\ NewEvents = <<"try", "download", "saved", "fail">>
                 /\ cache' = [cache EXCEPT ![m] = File(remote[m])]
                 /\ ~x.ok /\ last_err' = x.err
                 /\ pc' = "fetch" /\ hidx' = hidx + 1 ]_vars
  /\ [](\A i \in 1..Len(log) :
          log[i].ev = "try" =>
            LET m == Month(log[i].day)
                saved == { j \in MonthPos("saved", m) : j < i }
                asked == { j \in MonthPos("download", m) : j < i }
            IN /\ saved # {} => log[i + 1].ev = "cached"
               /\ (saved = {} /\ asked # {}) => log[i + 1].ev = "download")

\* One month's first request fails and the next hour asks again; another
\* month's archive is downloaded, does not hold the hour asked for, and is
\* read from the cache by the next hour.
C16_Witness ==
  /\ \E i \in 1..Len(log) :
       /\ log[i].ev = "download" /\ log[i + 1].ev = "fail"
       /\ \E j \in MonthPos("download", Month(log[i].day)) : j > i
  /\ \E k \in 1..Len(log) :
       /\ log[k].ev = "download"
       /\ k + 2 <= Len(log)
       /\ log[k + 1].ev = "saved" /\ log[k + 2].ev = "fail"
       /\ \E l \in MonthPos("cached", Month(log[k].day)) : l > k + 2

\* The relay-descriptor lines of the document: one per group.
RLines == { i \in LineNos : IsRLineAt(i) }

\* The value int() gives for the Bandwidth token of the weight line of the
\* group that starts at line i.
GroupBandwidth(i) == BandwidthOf(consensus_text[NextRW(i)]).val

\* The document is made of properly paired groups: every "r" line has an
\* identity token that decodes, its next r/w line is a "w" line with an
\* integer Bandwidth token, and no "w" line stands outside a group.
ProperlyPaired ==
  /\ \A i \in RLines :
       /\ Len(consensus_text[i]) >= 3
       /\ b64_to_hex(consensus_text[i][3]).ok
       /\ Paired(i)
       /\ LET bw == BandwidthOf(consensus_text[NextRW(i)]) IN
            bw.found /\ bw.ok
  /\ \A j \in LineNos :
       IsWLineAt(j) => \E i \in RLines : NextRW(i) = j

\* The identities of the groups decode to at least one byte and no two
\* groups have the same identity.
DistinctIdentities ==
  /\ \A i \in RLines : LineFp(i) # <<>>
  /\ \A i, j \in RLines : i # j => LineFp(i) # LineFp(j)

\* What the claim says of the mapping: as many entries as groups, each
\* group's fingerprint mapped to the group's own bandwidth.
OneEntryPerGroup ==
  /\ Cardinality(DOMAIN results) = Cardinality(RLines)
  /\ \A i \in RLines :
       /\ LineFp(i) \in DOMAIN results
       /\ results[LineFp(i)] = GroupBandwidth(i)

\* C13 as stated: a document of N properly paired groups parses to a
\* mapping of exactly N entries, each with the bandwidth of its own group.
C13_GroupsGiveNEntries ==
  (ppc = "returned" /\ ProperlyPaired) => OneEntryPerGroup

\* C13 (amended): a document of N properly paired groups whose identities
\* decode to at least one byte and are pairwise distinct parses to a mapping
\* of exactly N entries, each with the bandwidth of its own group.
C13_DistinctGroupsGiveNEntries ==
  (ppc = "returned" /\ ProperlyPaired /\ DistinctIdentities)
    => OneEntryPerGroup

\* Three groups of distinct identities, one of them of bandwidth 0, with a
\* status line between each "r" line and its "w" line.
C13_Witness ==
  /\ ppc = "returned" /\ ProperlyPaired /\ DistinctIdentities
  /\ Cardinality(RLines) = 3
  /\ \E i \in RLines : NextRW(i) = i + 2 /\ GroupBandwidth(i) = 0
  /\ \E i \in RLines : GroupBandwidth(i) # 0
  /\ Cardinality(DOMAIN results) = 3

\* The positions in gj_events of the requests and of the sleeps.
RequestPos == { i \in 1..Len(gj_events) : gj_events[i].ev = "request" }
SleepPos == { i \in 1..Len(gj_events) : gj_events[i].ev = "sleep" }
Failed(i) == gj_events[i].out \in RequestErrors

\* C15: a call of get_json sends at most RETRIES requests, numbered 1, 2, ...
\* It returns what the first request that succeeds gives and sends nothing
\* after it. It sleeps BACKOFF ** attempt seconds after each failed attempt
\* but the last, and at no other time. After RETRIES failures it raises the
\* error of the last attempt.
C15_AtMostRetriesRequests ==
  /\ Cardinality(RequestPos) <= RETRIES
  /\ \A i \in RequestPos :
       gj_events[i].attempt = Cardinality({ j \in RequestPos : j <= i })
  /\ \A i \in RequestPos :
       IF Failed(i)
       THEN IF gj_events[i].attempt < RETRIES
            THEN /\ i + 1 \in SleepPos
                 /\ i + 2 <= Len(gj_events) => i + 2 \in RequestPos
            ELSE i = Len(gj_events) /\ gj_pc = "raised"
       ELSE i = Len(gj_events) /\ gj_pc = "returned"
  /\ \A i \in SleepPos :
       /\ i - 1 \in RequestPos /\ Failed(i - 1)
       /\ gj_events[i].attempt = gj_events[i - 1].attempt
       /\ gj_events[i].attempt < RETRIES
       /\ gj_events[i].num * Pow(BackoffDen, gj_events[i].attempt)
            = Pow(BackoffNum, gj_events[i].attempt) * gj_events[i].den
  /\ gj_pc = "returned" =>
       /\ gj_events # <<>>
       /\ gj_result = gj_events[Len(gj_events)].out
       /\ gj_result \in Payloads
       /\ gj_raised = "None"
  /\ gj_pc = "raised" =>
       /\ Cardinality(RequestPos) = RETRIES
       /\ \A i \in RequestPos : Failed(i)
       /\ gj_raised = gj_events[Len(gj_events)].out
       /\ gj_result = "None"

\* Four failures of which the last differs from the others: three sleeps of
\* 3/2, 9/4 and 27/8 seconds, and the last error is the one raised.
C15_Witness ==
  /\ gj_pc = "raised"
  /\ Len(gj_events) = 7
  /\ gj_events[2].num = 3 /\ gj_events[2].den = 2
  /\ gj_events[4].num = 9 /\ gj_events[4].den = 4
  /\ gj_events[6].num = 27 /\ gj_events[6].den = 8
  /\ gj_events[7].out = "JSONDecodeError"
  /\ \A i \in {1, 3, 5} : gj_events[i].out = "Timeout"
  /\ gj_raised = "JSONDecodeError"

=============================================================================
